---- MODULE Spec2Model ----
(***************************************************************************)
(* A state-machine model of todo.py: the TodoApp store (tasks, groups, the *)
(* two id counters, the current view and the selection), its modal         *)
(* dialogs, its deferred callbacks and its JSON persistence.               *)
(*                                                                         *)
(* Conventions                                                             *)
(*   - Python None (Optional[int], Optional[str]) is the value None.       *)
(*   - A text is a sequence of one-character strings, so that strip(),     *)
(*     lower() and the substring test are computed, not assumed.           *)
(*   - Python objects captured by a dialog (a Task, a Group) are held as   *)
(*     positions in self.tasks / self.groups; list.remove() is by value,   *)
(*     as the dataclass __eq__ makes it.                                   *)
(*   - A JSON document is a record with an "absent" set naming the keys    *)
(*     it omits; dict.get(k, d) and d[k] read through it.                  *)
(***************************************************************************)
EXTENDS Integers, Sequences, FiniteSets, TLC

\* ------------------------------------------------------------- bounds
\* no task id beyond MaxTaskId and no group id beyond MaxGroupId is allocated:
\* the model stops adding there
MaxTaskId == 2
MaxGroupId == 1

\* ------------------------------------------------------------- values
None == -1

\* datetime.now().strftime("%d/%m %H:%M"): the clock values a run may read
Clock == {"03/11 10:54"}

\* what the user may type into an InputModal (before strip)
RawInputs == { <<>>, <<" ">>, <<" ", "B", " ">> }

\* what the user may type into the search dialog
RawQueries == { <<>>, <<"b">>, <<"z">> }

\* ------------------------------------------------------------- sequences
\* list.remove(x): drops the first element equal to x; ValueError when none
IndexOf(s, x) ==
    IF \E i \in DOMAIN s : s[i] = x
    THEN CHOOSE i \in DOMAIN s : s[i] = x /\ \A j \in 1..(i - 1) : s[j] # x
    ELSE 0

RemoveAt(s, i) == SubSeq(s, 1, i - 1) \o SubSeq(s, i + 1, Len(s))

list_remove(s, x) == RemoveAt(s, IndexOf(s, x))

Max(a, b) == IF a >= b THEN a ELSE b
Min(a, b) == IF a <= b THEN a ELSE b

\* ------------------------------------------------------------- str methods
IsSpace(c) == c = " "

RECURSIVE lstrip(_)
lstrip(s) == IF s # <<>> /\ IsSpace(Head(s)) THEN lstrip(Tail(s)) ELSE s

RECURSIVE rstrip(_)
rstrip(s) ==
    IF s # <<>> /\ IsSpace(s[Len(s)]) THEN rstrip(SubSeq(s, 1, Len(s) - 1)) ELSE s

\* str.strip()
strip(s) == rstrip(lstrip(s))

LowerChar(c) == IF c = "A" THEN "a" ELSE IF c = "B" THEN "b" ELSE c

\* str.lower() that leaves every character as it is
lower_keeps_case(s) == s

\* str.lower()
lower(s) == [i \in DOMAIN s |-> LowerChar(s[i])]

\* q in s
Contains(s, q) ==
    \E i \in 0..(Len(s) - Len(q)) : SubSeq(s, i + 1, i + Len(q)) = q

\* ------------------------------------------------------------- dataclasses
\* a Task without __post_init__: created_at is kept as given
Task_without_post_init(id, text, done, created_at, group_id, now) ==
    [id |-> id, text |-> text, done |-> done, created_at |-> created_at,
     group_id |-> group_id]

\* Task.__post_init__: an empty created_at is stamped with the clock
Task(id, text, done, created_at, group_id, now) ==
    [id |-> id, text |-> text, done |-> done,
     created_at |-> IF created_at = "" THEN now ELSE created_at,
     group_id |-> group_id]

Group(id, name) == [id |-> id, name |-> name]

\* ------------------------------------------------------------- documents
\* dict.get(key, default)
Get(d, key, default) == IF key \in d.absent THEN default ELSE d[key]

TaskEntry(id, text, done, created_at, group_id, absent) ==
    [id |-> id, text |-> text, done |-> done, created_at |-> created_at,
     group_id |-> group_id, absent |-> absent]

GroupEntry(id, name, absent) == [id |-> id, name |-> name, absent |-> absent]

Document(kind, ntid, ngid, gs, ts, absent) ==
    [kind |-> kind, next_task_id |-> ntid, next_group_id |-> ngid,
     groups |-> gs, tasks |-> ts, absent |-> absent]

\* no file at data_file
AbsentFile == Document("absent", 0, 0, <<>>, <<>>, {})
\* read_text() raises (permissions, encoding)
UnreadableFile == Document("unreadable", 0, 0, <<>>, <<>>, {})
\* json.loads() raises
UnparseableFile == Document("unparseable", 0, 0, <<>>, <<>>, {})
\* valid JSON whose top level is not an object: data.get raises
ArrayFile == Document("array", 0, 0, <<>>, <<>>, {})

\* The files the application may find at start-up.
Documents ==
    { AbsentFile, UnreadableFile, UnparseableFile, ArrayFile,
      \* {}
      Document("object", 0, 0, <<>>, <<>>,
               {"next_task_id", "next_group_id", "groups", "tasks"}),
      \* a document the application wrote itself
      Document("object", 2, 2,
               <<GroupEntry(1, <<"a">>, {})>>,
               <<TaskEntry(1, <<"B">>, FALSE, "01/11 09:00", 1, {})>>, {}),
      \* task records that omit done, created_at and group_id; no counters
      Document("object", 0, 0, <<>>,
               <<TaskEntry(1, <<"a">>, FALSE, "", None, {"done", "created_at", "group_id"})>>,
               {"next_task_id", "next_group_id", "groups"}),
      \* stale counters: both behind the ids in the document
      Document("object", 1, 1,
               <<GroupEntry(1, <<"a">>, {})>>,
               <<TaskEntry(1, <<"B">>, TRUE, "01/11 09:00", 1, {})>>, {}),
      \* a task that names a group the document does not hold
      Document("object", 2, 1, <<>>,
               <<TaskEntry(1, <<"B">>, FALSE, "01/11 09:00", 2, {})>>, {}),
      \* a group record without a name, after counters that parse
      Document("object", 3, 3,
               <<GroupEntry(1, <<"a">>, {}), GroupEntry(2, <<>>, {"name"})>>,
               <<>>, {}),
      \* a task record without a text, after counters and groups that parse
      Document("object", 3, 2,
               <<GroupEntry(1, <<"a">>, {})>>,
               <<TaskEntry(1, <<"a">>, FALSE, "01/11 09:00", None, {}),
                 TaskEntry(2, <<>>, FALSE, "01/11 09:00", 1, {"text"})>>, {}) }

\* ------------------------------------------------------------- state
VARIABLES
    tasks,             \* self.tasks
    groups,            \* self.groups
    next_task_id,      \* self.next_task_id
    next_group_id,     \* self.next_group_id
    selected_index,    \* self.selected_index
    current_group_id,  \* self.current_group_id
    data_file,         \* the content of ~/todo/todo_tasks.json
    screen,            \* the top of the screen stack, with what its callback captured
    callbacks,         \* call_later: callbacks queued on the app, oldest first
    keys_ahead,        \* how many keys may still be handled ahead of a queued callback
    phase,             \* "init" | "loaded" | "running" | "crashed"
    disk,              \* "ok", or "failing": write_text raises (permissions, disk full)
    ever_task_ids,     \* history: every task id that has been in self.tasks
    unsaved,           \* history: a mutation was made and save_data not yet called
    last               \* history: the handler that ran last and what it did

vars == <<tasks, groups, next_task_id, next_group_id, selected_index, current_group_id,
          data_file, screen, callbacks, keys_ahead, phase, disk, ever_task_ids,
          unsaved, last>>

store == <<tasks, groups, next_task_id, next_group_id>>

\* the store as one value
Store(ts, gs, ntid, ngid) ==
    [tasks |-> ts, groups |-> gs, next_task_id |-> ntid, next_group_id |-> ngid]

Self == Store(tasks, groups, next_task_id, next_group_id)

MainScreen == [name |-> "main", task |-> 0, group |-> 0, results |-> <<>>]

Modal(name, task, group, results) ==
    [name |-> name, task |-> task, group |-> group, results |-> results]

Did(op, outcome) == [op |-> op, outcome |-> outcome]

\* ------------------------------------------------------------- views
\* TodoApp._get_current_tasks, for the view of group id gid (None: ungrouped)
get_current_tasks(ts, gid) ==
    LET in_view(t) == t.group_id = gid IN SelectSeq(ts, in_view)

\* _get_ordered_tasks without the partition: the view in insertion order
get_ordered_tasks_unpartitioned(ts, gid) == get_current_tasks(ts, gid)

\* TodoApp._get_ordered_tasks: pending + completed
get_ordered_tasks(ts, gid) ==
    LET current == get_current_tasks(ts, gid)
        is_pending(t) == ~t.done
        is_completed(t) == t.done
    IN  SelectSeq(current, is_pending) \o SelectSeq(current, is_completed)

\* The positions in ts of the elements of get_ordered_tasks(ts, gid), in its
\* order: which object of self.tasks each element of the ordered view is.
RECURSIVE Positions(_, _, _, _)
Positions(ts, gid, done, i) ==
    IF i > Len(ts) THEN <<>>
    ELSE (IF ts[i].group_id = gid /\ ts[i].done = done THEN <<i>> ELSE <<>>)
         \o Positions(ts, gid, done, i + 1)

ordered_positions(ts, gid) ==
    Positions(ts, gid, FALSE, 1) \o Positions(ts, gid, TRUE, 1)

\* ordered[i] with Python's indexing: negative i counts from the end; 0 stands
\* for IndexError
PyIndex(n, i) ==
    IF 0 <= i /\ i < n THEN i + 1
    ELSE IF i < 0 /\ -i <= n THEN n + i + 1
    ELSE 0

\* the clamp of _update_selection_after_refresh with 1 as its lower bound
update_selection_after_refresh_from_one(ts, gid, sel) ==
    LET all_tasks == get_ordered_tasks(ts, gid)
    IN  IF all_tasks = <<>> THEN 0
        ELSE Max(1, Min(sel, Len(all_tasks) - 1))

\* the clamp of refresh_task_list / _update_selection_after_refresh
update_selection_after_refresh(ts, gid, sel) ==
    LET all_tasks == get_ordered_tasks(ts, gid)
    IN  IF all_tasks = <<>> THEN 0
        ELSE Max(0, Min(sel, Len(all_tasks) - 1))

\* TodoApp.update_selection: the same clamp, but an empty view leaves the index
update_selection(ts, gid, sel) ==
    LET ordered == get_ordered_tasks(ts, gid)
    IN  IF ordered = <<>> THEN sel
        ELSE Max(0, Min(sel, Len(ordered) - 1))

\* ------------------------------------------------------------- widgets
\* Mounting two widgets with one id under one parent raises DuplicateIds.
Distinct(s) == \A i, j \in DOMAIN s : i # j => s[i] # s[j]

\* refresh_tabs mounts one GroupTab "tab-<id>" per group
refresh_tabs_raises(gs) == ~Distinct([i \in DOMAIN gs |-> gs[i].id])

\* refresh_task_list mounts one TaskWidget "task-<id>" per task of the view
refresh_task_list_raises(ts, gid) ==
    LET current == get_current_tasks(ts, gid)
    IN  ~Distinct([i \in DOMAIN current |-> current[i].id])

\* ------------------------------------------------------------- persistence
\* save_data with the "group_id" key left out of every task record
save_document_without_group_id(self) ==
    Document("object", self.next_task_id, self.next_group_id,
             [i \in DOMAIN self.groups |->
                 GroupEntry(self.groups[i].id, self.groups[i].name, {})],
             [i \in DOMAIN self.tasks |->
                 TaskEntry(self.tasks[i].id, self.tasks[i].text, self.tasks[i].done,
                           self.tasks[i].created_at, None, {"group_id"})],
             {})

\* the dict save_data builds and json.dumps writes
save_document(self) ==
    Document("object", self.next_task_id, self.next_group_id,
             [i \in DOMAIN self.groups |->
                 GroupEntry(self.groups[i].id, self.groups[i].name, {})],
             [i \in DOMAIN self.tasks |->
                 TaskEntry(self.tasks[i].id, self.tasks[i].text, self.tasks[i].done,
                           self.tasks[i].created_at, self.tasks[i].group_id, {})],
             {})

\* the except branch of load_data
load_reset == Store(<<>>, <<>>, 1, 1)

\* g["id"], g["name"] raise KeyError when the record omits them
group_record_raises(g) == "id" \in g.absent \/ "name" \in g.absent

\* t["id"], t["text"] raise KeyError when the record omits them
task_record_raises(t) == "id" \in t.absent \/ "text" \in t.absent

\* load_data whose except branch empties tasks and groups but forgets the
\* counters it has already assigned
load_data_keeps_counters(self, doc, now) ==
    IF doc.kind = "absent" THEN self
    ELSE IF doc.kind # "object" THEN load_reset
    ELSE
        LET gs == Get(doc, "groups", <<>>)
            ts == Get(doc, "tasks", <<>>)
            counters == [self EXCEPT
                            !.next_task_id = Get(doc, "next_task_id", 1),
                            !.next_group_id = Get(doc, "next_group_id", 1)]
            failed == [counters EXCEPT !.tasks = <<>>, !.groups = <<>>]
        IN  IF \E i \in DOMAIN gs : group_record_raises(gs[i]) THEN failed
            ELSE IF \E i \in DOMAIN ts : task_record_raises(ts[i]) THEN failed
            ELSE [counters EXCEPT
                    !.groups = [i \in DOMAIN gs |-> Group(gs[i].id, gs[i].name)],
                    !.tasks = [i \in DOMAIN ts |->
                        Task(ts[i].id, ts[i].text, Get(ts[i], "done", FALSE),
                             Get(ts[i], "created_at", ""), Get(ts[i], "group_id", None),
                             now)]]

\* TodoApp.load_data, from the store `self` and the file `doc`, reading the
\* clock as `now`
load_data(self, doc, now) ==
    IF doc.kind = "absent" THEN self
    ELSE IF doc.kind # "object" THEN load_reset
    ELSE
        LET gs == Get(doc, "groups", <<>>)
            ts == Get(doc, "tasks", <<>>)
            counters == [self EXCEPT
                            !.next_task_id = Get(doc, "next_task_id", 1),
                            !.next_group_id = Get(doc, "next_group_id", 1)]
            with_groups == [counters EXCEPT
                            !.groups = [i \in DOMAIN gs |-> Group(gs[i].id, gs[i].name)]]
            with_tasks == [with_groups EXCEPT
                            !.tasks = [i \in DOMAIN ts |->
                                Task(ts[i].id, ts[i].text,
                                     Get(ts[i], "done", FALSE),
                                     Get(ts[i], "created_at", ""),
                                     Get(ts[i], "group_id", None),
                                     now)]]
        IN  IF \E i \in DOMAIN gs : group_record_raises(gs[i]) THEN load_reset
            ELSE IF \E i \in DOMAIN ts : task_record_raises(ts[i]) THEN load_reset
            ELSE with_tasks

\* ------------------------------------------------------------- start-up
TaskIds(ts) == { ts[i].id : i \in DOMAIN ts }

\* TodoApp.__init__, up to the call of load_data
Init ==
    /\ tasks = <<>>
    /\ groups = <<>>
    /\ next_task_id = 1
    /\ next_group_id = 1
    /\ selected_index = 0
    /\ current_group_id = None
    /\ data_file \in Documents
    /\ screen = MainScreen
    /\ callbacks = <<>>
    /\ keys_ahead = 0
    /\ phase = "init"
    /\ disk = "ok"
    /\ ever_task_ids = {}
    /\ unsaved = FALSE
    /\ last = Did("init", "ok")

\* TodoApp.__init__: self.load_data()
LoadData ==
    /\ phase = "init"
    /\ \E now \in Clock :
         LET loaded == load_data(Self, data_file, now)
         IN  /\ tasks' = loaded.tasks
             /\ groups' = loaded.groups
             /\ next_task_id' = loaded.next_task_id
             /\ next_group_id' = loaded.next_group_id
             /\ ever_task_ids' = TaskIds(loaded.tasks)
    /\ phase' = "loaded"
    /\ last' = Did("load_data", "ok")
    /\ UNCHANGED <<selected_index, current_group_id, data_file, screen, callbacks,
                   keys_ahead, unsaved, disk>>

\* TodoApp.on_mount: refresh_tabs, refresh_task_list, update_stats
OnMount ==
    /\ phase = "loaded"
    /\ IF refresh_tabs_raises(groups) \/ refresh_task_list_raises(tasks, current_group_id)
       THEN /\ phase' = "crashed"
            /\ last' = Did("on_mount", "raised")
            /\ UNCHANGED selected_index
       ELSE /\ phase' = "running"
            /\ last' = Did("on_mount", "ok")
            /\ selected_index' =
                  update_selection_after_refresh(tasks, current_group_id, selected_index)
    /\ UNCHANGED <<store, current_group_id, data_file, screen, callbacks, ever_task_ids, unsaved>>
    /\ UNCHANGED <<keys_ahead, disk>>

\* ------------------------------------------------------------- dialogs
\* InputModal.on_save without the strip: dismiss(value if value else None)
on_save_unstripped(raw) == IF raw # <<>> THEN raw ELSE <<>>

\* InputModal.on_save: dismiss(text if text else None); <<>> stands for None,
\* which every callback tests the same way (`if result:`)
on_save(raw) == LET text == strip(raw) IN IF text # <<>> THEN text ELSE <<>>

\* InputModal.on_cancel / action_cancel: dismiss(None)
on_cancel == <<>>

\* every value an InputModal may be dismissed with
InputResults == { on_save(raw) : raw \in RawInputs } \cup { on_cancel }

\* The application takes a key binding: it runs and no modal screen is on top.
\* call_later runs a callback after the messages already queued, so a key that
\* was pressed before the callback was queued is handled ahead of it; a run
\* allows keys_ahead such keys.
key_binding ==
    /\ phase = "running"
    /\ screen = MainScreen
    /\ IF callbacks = <<>> THEN UNCHANGED keys_ahead
       ELSE keys_ahead > 0 /\ keys_ahead' = keys_ahead - 1

\* A dialog is dismissed by the user, who sees it first: the callbacks queued
\* before it was pushed have run.
dismissed(name) ==
    /\ phase = "running"
    /\ screen.name = name
    /\ callbacks = <<>>
    /\ UNCHANGED keys_ahead

\* ------------------------------------------------------------- save_data
\* save_data whose failing write has already replaced the file's content
save_data_write_not_atomic(self, op) ==
    /\ unsaved' = FALSE
    /\ data_file' = IF disk = "ok" THEN save_document(self) ELSE UnparseableFile
    /\ last' = Did(op, IF disk = "ok" THEN "saved" ELSE "write_failed")

\* TodoApp.save_data: writes the document, or the write raises and is swallowed
save_data(self, op) ==
    /\ unsaved' = FALSE
    /\ IF disk = "ok"
       THEN /\ data_file' = save_document(self)
            /\ last' = Did(op, "saved")
       ELSE /\ data_file' = data_file
            /\ last' = Did(op, "write_failed")

\* an unhandled exception in a handler ends the application
Crash(op) ==
    /\ phase' = "crashed"
    /\ last' = Did(op, "raised")
    /\ screen' = MainScreen
    /\ UNCHANGED <<data_file, callbacks>>

\* ------------------------------------------------------------- tasks
\* on_result of action_add_task putting the new task at the head of the list
add_task_at_head(self, text, gid, now) ==
    [self EXCEPT
        !.tasks = <<Task(self.next_task_id, text, FALSE, "", gid, now)>> \o self.tasks,
        !.next_task_id = self.next_task_id + 1]

\* on_result of action_add_task: the store after the append
add_task(self, text, gid, now) ==
    [self EXCEPT
        !.tasks = Append(self.tasks, Task(self.next_task_id, text, FALSE, "", gid, now)),
        !.next_task_id = self.next_task_id + 1]

\* action_add_task: push the InputModal
action_add_task ==
    /\ key_binding
    /\ screen' = Modal("add_task", 0, 0, <<>>)
    /\ last' = Did("action_add_task", "opened")
    /\ UNCHANGED <<store, selected_index, current_group_id, data_file, callbacks, phase, ever_task_ids, unsaved>>
    /\ UNCHANGED disk

\* action_add_task.on_result, called with result, reading the clock as now
add_task_on_result(result, now) ==
    /\ dismissed("add_task")
    /\   IF result = <<>>
         THEN /\ screen' = MainScreen
              /\ last' = Did("add_task", "none")
              /\ UNCHANGED <<store, selected_index, current_group_id, data_file,
                             callbacks, phase, ever_task_ids, unsaved>>
         ELSE /\ next_task_id <= MaxTaskId
              /\ LET new == add_task(Self, result, current_group_id, now)
                     current == get_current_tasks(new.tasks, current_group_id)
                     is_pending(t) == ~t.done
                     pending == SelectSeq(current, is_pending)
                 IN  /\ tasks' = new.tasks
                     /\ next_task_id' = new.next_task_id
                     /\ ever_task_ids' = ever_task_ids \cup TaskIds(new.tasks)
                     /\ UNCHANGED <<groups, next_group_id, current_group_id>>
                     /\ IF refresh_task_list_raises(new.tasks, current_group_id)
                        THEN /\ selected_index' = Len(pending) - 1
                             /\ unsaved' = TRUE
                             /\ Crash("add_task")
                        ELSE /\ selected_index' =
                                  update_selection_after_refresh(
                                      new.tasks, current_group_id, Len(pending) - 1)
                             /\ screen' = MainScreen
                             /\ save_data(new, "add_task")
                             /\ UNCHANGED <<callbacks, phase>>
    /\ UNCHANGED disk

\* the InputModal of action_add_task is dismissed
AddTaskResult == \E result \in InputResults, now \in Clock : add_task_on_result(result, now)

\* get_selected_task_widget: the position in self.tasks of the selected task's
\* widget, 0 for None
get_selected_task_widget(ts, gid, sel) ==
    LET ordered == ordered_positions(ts, gid)
    IN  IF ordered = <<>> \/ sel >= Len(ordered) THEN 0
        ELSE IF PyIndex(Len(ordered), sel) = 0 THEN 0
        ELSE ordered[PyIndex(Len(ordered), sel)]

\* TaskWidget.update_text on the task at position pos
update_text(ts, pos, new_text) == [ts EXCEPT ![pos].text = new_text]

\* toggle_done that takes the task out and puts it back at the end of the list
toggle_done_reinserts(ts, pos) ==
    Append(RemoveAt(ts, pos), [ts[pos] EXCEPT !.done = ~ts[pos].done])

\* TaskWidget.toggle_done on the task at position pos
toggle_done(ts, pos) == [ts EXCEPT ![pos].done = ~ts[pos].done]

\* action_edit_task: push the InputModal for the selected widget
action_edit_task ==
    /\ key_binding
    /\ LET widget == get_selected_task_widget(tasks, current_group_id, selected_index)
       IN  IF widget = 0
           THEN /\ last' = Did("noop", "none")
                /\ UNCHANGED screen
           ELSE /\ last' = Did("action_edit_task", "opened")
                /\ screen' = Modal("edit_task", widget, 0, <<>>)
    /\ UNCHANGED <<store, selected_index, current_group_id, data_file, callbacks, phase, ever_task_ids, unsaved>>
    /\ UNCHANGED disk

\* action_edit_task.on_result, called with result
edit_task_on_result(result) ==
    /\ dismissed("edit_task")
    /\ screen' = MainScreen
    /\   IF result = <<>>
         THEN /\ last' = Did("edit_task", "none")
              /\ UNCHANGED <<tasks, data_file, unsaved>>
         ELSE /\ tasks' = update_text(tasks, screen.task, result)
              /\ save_data([Self EXCEPT !.tasks = tasks'], "edit_task")
    /\ UNCHANGED <<groups, next_task_id, next_group_id, selected_index, current_group_id,
                   callbacks, phase, ever_task_ids>>
    /\ UNCHANGED disk

\* the InputModal of action_edit_task is dismissed
EditTaskResult == \E result \in InputResults : edit_task_on_result(result)

\* action_delete_task: push the ConfirmModal for ordered[self.selected_index]
action_delete_task ==
    /\ key_binding
    /\ LET ordered == ordered_positions(tasks, current_group_id)
       IN  IF ordered = <<>>
           THEN /\ last' = Did("noop", "none")
                /\ UNCHANGED <<screen, phase>>
           ELSE IF PyIndex(Len(ordered), selected_index) = 0
           THEN /\ last' = Did("action_delete_task", "raised")
                /\ phase' = "crashed"
                /\ UNCHANGED screen
           ELSE /\ last' = Did("action_delete_task", "opened")
                /\ screen' = Modal("delete_task",
                                   ordered[PyIndex(Len(ordered), selected_index)], 0, <<>>)
                /\ UNCHANGED phase
    /\ UNCHANGED <<store, selected_index, current_group_id, data_file, callbacks, ever_task_ids, unsaved>>
    /\ UNCHANGED disk

\* action_delete_task.on_result
DeleteTaskResult ==
    /\ dismissed("delete_task")
    /\ screen' = MainScreen
    /\ \E confirmed \in BOOLEAN :
         IF ~confirmed
         THEN /\ last' = Did("noop", "none")
              /\ UNCHANGED <<tasks, selected_index, data_file, unsaved>>
         ELSE LET left == list_remove(tasks, tasks[screen.task])
                  n == Len(get_ordered_tasks(left, current_group_id))
                  sel == IF selected_index >= n /\ selected_index > 0
                         THEN selected_index - 1 ELSE selected_index
              IN  /\ tasks' = left
                  /\ selected_index' =
                        update_selection_after_refresh(left, current_group_id, sel)
                  /\ save_data([Self EXCEPT !.tasks = left], "delete_task")
    /\ UNCHANGED <<groups, next_task_id, next_group_id, current_group_id, callbacks,
                   phase, ever_task_ids>>
    /\ UNCHANGED disk

\* action_toggle_done
action_toggle_done ==
    /\ key_binding
    /\ LET widget == get_selected_task_widget(tasks, current_group_id, selected_index)
       IN  IF widget = 0
           THEN /\ last' = Did("noop", "none")
                /\ UNCHANGED <<tasks, selected_index, data_file, unsaved>>
           ELSE /\ tasks' = toggle_done(tasks, widget)
                /\ save_data([Self EXCEPT !.tasks = tasks'], "action_toggle_done")
                /\ selected_index' =
                      update_selection_after_refresh(tasks', current_group_id,
                                                     selected_index)
    /\ UNCHANGED <<groups, next_task_id, next_group_id, current_group_id, screen,
                   callbacks, phase, ever_task_ids>>
    /\ UNCHANGED disk

\* action_move_up
action_move_up ==
    /\ key_binding
    /\ LET ordered == get_ordered_tasks(tasks, current_group_id)
       IN  IF ordered # <<>> /\ selected_index > 0
           THEN /\ selected_index' =
                      update_selection(tasks, current_group_id, selected_index - 1)
                /\ last' = Did("action_move_up", "moved")
           ELSE /\ last' = Did("noop", "none")
                /\ UNCHANGED selected_index
    /\ UNCHANGED <<store, current_group_id, data_file, screen, callbacks, phase, ever_task_ids, unsaved>>
    /\ UNCHANGED disk

\* action_move_down
action_move_down ==
    /\ key_binding
    /\ LET ordered == get_ordered_tasks(tasks, current_group_id)
       IN  IF ordered # <<>> /\ selected_index < Len(ordered) - 1
           THEN /\ selected_index' =
                      update_selection(tasks, current_group_id, selected_index + 1)
                /\ last' = Did("action_move_down", "moved")
           ELSE /\ last' = Did("noop", "none")
                /\ UNCHANGED selected_index
    /\ UNCHANGED <<store, current_group_id, data_file, screen, callbacks, phase, ever_task_ids, unsaved>>
    /\ UNCHANGED disk

\* ------------------------------------------------------------- groups
\* [None] + [g.id for g in self.groups]
group_ids(gs) == <<None>> \o [i \in DOMAIN gs |-> gs[i].id]

\* next((g for g in self.groups if g.id == gid), None): its position, 0 for None
find_group(gs, gid) ==
    IF \E i \in DOMAIN gs : gs[i].id = gid
    THEN CHOOSE i \in DOMAIN gs : gs[i].id = gid /\ \A j \in 1..(i - 1) : gs[j].id # gid
    ELSE 0

\* on_result of action_new_group: the store after the append
new_group(self, name) ==
    [self EXCEPT
        !.groups = Append(self.groups, Group(self.next_group_id, name)),
        !.next_group_id = self.next_group_id + 1]

\* _delete_group without the cascade: only the group goes
delete_group_without_cascade(self, group) ==
    [self EXCEPT !.groups = list_remove(self.groups, group)]

\* on_confirm of _delete_group: the store without the group and its tasks
delete_group(self, group) ==
    LET kept(t) == t.group_id # group.id
    IN  [self EXCEPT
            !.tasks = SelectSeq(self.tasks, kept),
            !.groups = list_remove(self.groups, group)]

\* on_result of _rename_group
rename_group(gs, pos, name) == [gs EXCEPT ![pos].name = name]

\* action_new_group: push the InputModal
action_new_group ==
    /\ key_binding
    /\ screen' = Modal("new_group", 0, 0, <<>>)
    /\ last' = Did("action_new_group", "opened")
    /\ UNCHANGED <<store, selected_index, current_group_id, data_file, callbacks, phase, ever_task_ids, unsaved>>
    /\ UNCHANGED disk

\* action_new_group.on_result, called with result
new_group_on_result(result) ==
    /\ dismissed("new_group")
    /\   IF result = <<>>
         THEN /\ screen' = MainScreen
              /\ last' = Did("new_group", "none")
              /\ UNCHANGED <<store, selected_index, current_group_id, data_file,
                             callbacks, phase, unsaved>>
         ELSE /\ next_group_id <= MaxGroupId
              /\ LET new == new_group(Self, result)
                 IN  /\ groups' = new.groups
                     /\ next_group_id' = new.next_group_id
                     /\ current_group_id' = next_group_id
                     /\ selected_index' = 0
                     /\ UNCHANGED <<tasks, next_task_id>>
                     /\ IF \/ refresh_tabs_raises(new.groups)
                           \/ refresh_task_list_raises(tasks, next_group_id)
                        THEN /\ unsaved' = TRUE
                             /\ Crash("new_group")
                        ELSE /\ screen' = MainScreen
                             /\ save_data(new, "new_group")
                             /\ UNCHANGED <<callbacks, phase>>
    /\ UNCHANGED ever_task_ids
    /\ UNCHANGED disk

\* the InputModal of action_new_group is dismissed
NewGroupResult == \E result \in InputResults : new_group_on_result(result)

\* action_group_options: push the GroupOptionsModal for the current group
action_group_options ==
    /\ key_binding
    /\ LET group == find_group(groups, current_group_id)
       IN  IF current_group_id = None \/ group = 0
           THEN /\ last' = Did("noop", "none")
                /\ UNCHANGED screen
           ELSE /\ last' = Did("action_group_options", "opened")
                /\ screen' = Modal("group_options", 0, group, <<>>)
    /\ UNCHANGED <<store, selected_index, current_group_id, data_file, callbacks, phase, ever_task_ids, unsaved>>
    /\ UNCHANGED disk

\* action_group_options.on_option: _rename_group and _delete_group push their
\* dialogs, any other option closes
GroupOption ==
    /\ dismissed("group_options")
    /\ \E option \in {"rename", "delete", ""} :
         /\ screen' = IF option = "rename" THEN Modal("rename_group", 0, screen.group, <<>>)
                      ELSE IF option = "delete"
                      THEN Modal("delete_group", 0, screen.group, <<>>)
                      ELSE MainScreen
         /\ last' = IF option = "" THEN Did("noop", "none") ELSE Did("on_option", "opened")
    /\ UNCHANGED <<store, selected_index, current_group_id, data_file, callbacks, phase, ever_task_ids, unsaved>>
    /\ UNCHANGED disk

\* _rename_group.on_result, called with result: the rename, and
\* call_later(self._after_rename)
rename_group_on_result(result) ==
    /\ dismissed("rename_group")
    /\ screen' = MainScreen
    /\   IF result = <<>>
         THEN /\ last' = Did("rename_group", "none")
              /\ UNCHANGED <<groups, callbacks, unsaved>>
         ELSE /\ groups' = rename_group(groups, screen.group, result)
              /\ callbacks' = Append(callbacks, [fn |-> "after_rename", id |-> 0, gid |-> 0])
              /\ unsaved' = TRUE
              /\ last' = Did("rename_group", "deferred")
    /\ UNCHANGED <<tasks, next_task_id, next_group_id, selected_index, current_group_id,
                   data_file, phase, ever_task_ids>>
    /\ UNCHANGED disk

\* the InputModal of _rename_group is dismissed
RenameGroupResult == \E result \in InputResults : rename_group_on_result(result)

\* _delete_group.on_confirm
DeleteGroupResult ==
    /\ dismissed("delete_group")
    /\ \E confirmed \in BOOLEAN :
         IF ~confirmed
         THEN /\ screen' = MainScreen
              /\ last' = Did("noop", "none")
              /\ UNCHANGED <<tasks, groups, selected_index, current_group_id, data_file,
                             callbacks, phase, unsaved>>
         ELSE LET new == delete_group(Self, groups[screen.group])
              IN  /\ tasks' = new.tasks
                  /\ groups' = new.groups
                  /\ current_group_id' = None
                  /\ selected_index' = 0
                  /\ IF \/ refresh_tabs_raises(new.groups)
                        \/ refresh_task_list_raises(new.tasks, None)
                     THEN /\ unsaved' = TRUE
                          /\ Crash("delete_group")
                     ELSE /\ screen' = MainScreen
                          /\ save_data(new, "delete_group")
                          /\ UNCHANGED <<callbacks, phase>>
    /\ UNCHANGED <<next_task_id, next_group_id, ever_task_ids>>
    /\ UNCHANGED disk

\* action_prev_group (step = -1) and action_next_group (step = 1)
step_group(op, step) ==
    /\ key_binding
    /\ LET ids == group_ids(groups)
           current_idx == IndexOf(ids, current_group_id) - 1
           new_idx == (current_idx + step) % Len(ids)
       IN  IF current_idx < 0
           THEN \* list.index raises ValueError
                /\ phase' = "crashed"
                /\ last' = Did(op, "raised")
                /\ UNCHANGED <<current_group_id, selected_index>>
           ELSE /\ current_group_id' = ids[new_idx + 1]
                /\ IF \/ refresh_tabs_raises(groups)
                      \/ refresh_task_list_raises(tasks, ids[new_idx + 1])
                   THEN /\ phase' = "crashed"
                        /\ last' = Did(op, "raised")
                        /\ selected_index' = 0
                   ELSE /\ selected_index' =
                              update_selection_after_refresh(tasks, ids[new_idx + 1], 0)
                        /\ last' = Did(op, "moved")
                        /\ UNCHANGED phase
    /\ UNCHANGED <<store, data_file, screen, callbacks, ever_task_ids,
                   unsaved>>
    /\ UNCHANGED disk

action_prev_group == step_group("action_prev_group", -1)

action_next_group == step_group("action_next_group", 1)

\* ------------------------------------------------------------- search
\* the name shown for a task that is in no group: "Sin grupo"
SinGrupo == <<"S", "i", "n", " ", "g", "r", "u", "p", "o">>

\* on_search_input: the group_name paired with a task of group id gid
group_name(gs, gid) ==
    IF gid = None THEN SinGrupo
    ELSE LET group == find_group(gs, gid)
         IN  IF group # 0 THEN gs[group].name ELSE SinGrupo

\* on_search_input: the (task, group_name) pairs of the matching tasks, in the
\* order of self.tasks; a task is given by its position in self.tasks
RECURSIVE Matches(_, _, _, _)
Matches(ts, gs, query_lower, i) ==
    IF i > Len(ts) THEN <<>>
    ELSE (IF Contains(lower(ts[i].text), query_lower)
          THEN << [task |-> i, group_name |-> group_name(gs, ts[i].group_id)] >>
          ELSE <<>>)
         \o Matches(ts, gs, query_lower, i + 1)

search_results(ts, gs, query) == Matches(ts, gs, lower(query), 1)

\* _go_to_task: self.call_later(do_navigation), which keeps the task
go_to_task(task) == [fn |-> "do_navigation", id |-> task.id, gid |-> task.group_id]

\* action_search: push the InputModal
action_search ==
    /\ key_binding
    /\ screen' = Modal("search", 0, 0, <<>>)
    /\ last' = Did("action_search", "opened")
    /\ UNCHANGED <<store, selected_index, current_group_id, data_file, callbacks, phase, ever_task_ids, unsaved>>
    /\ UNCHANGED disk

\* action_search.on_search_input, called with query
on_search_input(query) ==
    /\ dismissed("search")
    /\   LET results == search_results(tasks, groups, query)
         IN  IF query = <<>>
             THEN /\ screen' = MainScreen
                  /\ last' = Did("noop", "none")
                  /\ UNCHANGED callbacks
             ELSE IF results = <<>>
             THEN /\ screen' = Modal("no_results", 0, 0, <<>>)
                  /\ last' = Did("search", "no_results")
                  /\ UNCHANGED callbacks
             ELSE IF Len(results) = 1
             THEN /\ screen' = MainScreen
                  /\ callbacks' = Append(callbacks, go_to_task(tasks[results[1].task]))
                  /\ last' = Did("search", "one_result")
             ELSE /\ screen' = Modal("search_results", 0, 0, results)
                  /\ last' = Did("search", "many_results")
                  /\ UNCHANGED callbacks
    /\ UNCHANGED <<store, selected_index, current_group_id, data_file, phase, ever_task_ids, unsaved>>
    /\ UNCHANGED disk

\* the InputModal of action_search is dismissed
SearchInput == \E raw \in RawQueries : on_search_input(on_save(raw))

\* the ConfirmModal "no results" is pushed without a callback
NoResultsDismissed ==
    /\ dismissed("no_results")
    /\ screen' = MainScreen
    /\ last' = Did("noop", "none")
    /\ UNCHANGED <<store, selected_index, current_group_id, data_file, callbacks, phase, ever_task_ids, unsaved>>
    /\ UNCHANGED disk

\* _on_search_result: a result is selected, or the screen is cancelled (None)
SearchResultSelected ==
    /\ dismissed("search_results")
    /\ screen' = MainScreen
    /\ \/ /\ last' = Did("noop", "none")
          /\ UNCHANGED callbacks
       \/ \E k \in DOMAIN screen.results :
            /\ callbacks' = Append(callbacks, go_to_task(tasks[screen.results[k].task]))
            /\ last' = Did("on_search_result", "selected")
    /\ UNCHANGED <<store, selected_index, current_group_id, data_file, phase, ever_task_ids, unsaved>>
    /\ UNCHANGED disk

\* ------------------------------------------------------------- call_later
\* do_navigation: the index of the first task of the view with the id, else sel
navigation_index(ts, gid, id, sel) ==
    LET ordered == get_ordered_tasks(ts, gid)
    IN  IF \E i \in DOMAIN ordered : ordered[i].id = id
        THEN (CHOOSE i \in DOMAIN ordered :
                 ordered[i].id = id /\ \A j \in 1..(i - 1) : ordered[j].id # id) - 1
        ELSE sel

\* _go_to_task.do_navigation
do_navigation(cb) ==
    /\ current_group_id' = cb.gid
    /\ IF refresh_tabs_raises(groups) \/ refresh_task_list_raises(tasks, cb.gid)
       THEN /\ selected_index' = 0
            /\ phase' = "crashed"
            /\ last' = Did("do_navigation", "raised")
       ELSE /\ selected_index' =
                 update_selection(tasks, cb.gid,
                     navigation_index(tasks, cb.gid, cb.id,
                         update_selection_after_refresh(tasks, cb.gid, 0)))
            /\ last' = Did("do_navigation", "moved")
            /\ UNCHANGED phase
    /\ UNCHANGED <<store, data_file, unsaved>>

\* _after_rename: refresh_tabs, update_stats, save_data
after_rename ==
    /\ IF refresh_tabs_raises(groups)
       THEN /\ phase' = "crashed"
            /\ last' = Did("after_rename", "raised")
            /\ UNCHANGED <<data_file, unsaved>>
       ELSE /\ save_data(Self, "after_rename")
            /\ UNCHANGED phase
    /\ UNCHANGED <<store, selected_index, current_group_id>>

\* The app runs the oldest queued callback. A callback queries the widgets of
\* the main screen; with a modal screen on top the query raises NoMatches.
RunCallback ==
    /\ phase = "running"
    /\ callbacks # <<>>
    /\ callbacks' = Tail(callbacks)
    /\ UNCHANGED keys_ahead
    /\ IF screen # MainScreen
       THEN /\ phase' = "crashed"
            /\ last' = Did(Head(callbacks).fn, "raised")
            /\ UNCHANGED <<store, selected_index, current_group_id, data_file, unsaved>>
       ELSE IF Head(callbacks).fn = "after_rename" THEN after_rename
       ELSE do_navigation(Head(callbacks))
    /\ UNCHANGED <<screen, ever_task_ids>>
    /\ UNCHANGED disk

\* ------------------------------------------------------------- specification
Next ==
    \/ LoadData
    \/ OnMount
    \/ action_add_task
    \/ AddTaskResult
    \/ action_edit_task
    \/ EditTaskResult
    \/ action_delete_task
    \/ DeleteTaskResult
    \/ action_toggle_done
    \/ action_move_up
    \/ action_move_down
    \/ action_new_group
    \/ NewGroupResult
    \/ action_group_options
    \/ GroupOption
    \/ RenameGroupResult
    \/ DeleteGroupResult
    \/ action_prev_group
    \/ action_next_group
    \/ action_search
    \/ SearchInput
    \/ NoResultsDismissed
    \/ SearchResultSelected
    \/ RunCallback

Spec == Init /\ [][Next]_vars

\* A run in which one key may be handled ahead of a queued callback.
InitTypeAhead ==
    /\ tasks = <<>>
    /\ groups = <<>>
    /\ next_task_id = 1
    /\ next_group_id = 1
    /\ selected_index = 0
    /\ current_group_id = None
    /\ data_file \in Documents
    /\ screen = MainScreen
    /\ callbacks = <<>>
    /\ keys_ahead = 1
    /\ phase = "init"
    /\ disk = "ok"
    /\ ever_task_ids = {}
    /\ unsaved = FALSE
    /\ last = Did("init", "ok")

SpecTypeAhead == InitTypeAhead /\ [][Next]_vars

\* ------------------------------------------------------------- properties
GroupIds(gs) == { gs[i].id : i \in DOMAIN gs }

\* load_data took the try branch to its end: the file is a JSON object and no
\* record of it lacks a required key
Accepted(doc) ==
    /\ doc.kind = "object"
    /\ \A i \in DOMAIN Get(doc, "groups", <<>>) :
          ~group_record_raises(Get(doc, "groups", <<>>)[i])
    /\ \A i \in DOMAIN Get(doc, "tasks", <<>>) :
          ~task_record_raises(Get(doc, "tasks", <<>>)[i])

\* A run in which every write_text of save_data raises, after a start-up that
\* found no file or a document load_data accepts.
InitDiskFailing ==
    /\ tasks = <<>>
    /\ groups = <<>>
    /\ next_task_id = 1
    /\ next_group_id = 1
    /\ selected_index = 0
    /\ current_group_id = None
    /\ data_file \in { doc \in Documents : doc.kind = "absent" \/ Accepted(doc) }
    /\ screen = MainScreen
    /\ callbacks = <<>>
    /\ keys_ahead = 0
    /\ phase = "init"
    /\ disk = "failing"
    /\ ever_task_ids = {}
    /\ unsaved = FALSE
    /\ last = Did("init", "ok")

SpecDiskFailing == InitDiskFailing /\ [][Next]_vars

\* C1: every task that add-task creates gets an id strictly greater than every
\* task id that was allocated before or has been in the store (so no id is
\* shared or reused), whatever was loaded and deleted before.
C1_NewTaskIdIsFresh ==
    [][ Len(tasks') = Len(tasks) + 1 =>
          \A id \in ever_task_ids \cup TaskIds(tasks) : tasks'[Len(tasks')].id > id ]_vars

\* C2: after load_data has accepted a document, next_task_id exceeds every
\* loaded task id and next_group_id exceeds every loaded group id.
C2_CountersPastLoadedIds ==
    (phase = "loaded" /\ Accepted(data_file)) =>
        /\ \A id \in TaskIds(tasks) : next_task_id >= id + 1
        /\ \A id \in GroupIds(groups) : next_group_id >= id + 1

\* C3: in every state, every task with a group_id other than None names a group
\* that is in self.groups.
C3_TasksReferenceExistingGroups ==
    \A i \in DOMAIN tasks :
        tasks[i].group_id # None => tasks[i].group_id \in GroupIds(groups)

\* C4: in every state, current_group_id is None or the id of a group that is in
\* self.groups.
C4_CurrentGroupExists ==
    current_group_id # None => current_group_id \in GroupIds(groups)

\* the ids a view may be asked for: None, every group, every id a task names
ViewIds == {None} \cup GroupIds(groups) \cup { tasks[i].group_id : i \in DOMAIN tasks }

\* the positions in self.tasks of the tasks of view gid
Members(gid) == { p \in DOMAIN tasks : tasks[p].group_id = gid }

\* how many tasks of its view come before the task at position p: the pending
\* ones when it is completed, and those of its own partition inserted earlier
Rank(p, gid) ==
    Cardinality({ q \in Members(gid) :
                    \/ ~tasks[q].done /\ tasks[p].done
                    \/ tasks[q].done = tasks[p].done /\ q < p })

\* C5: the ordered view of every group (and of the ungrouped set) holds exactly
\* the tasks with that group_id, the pending ones before the completed ones, and
\* each partition in the order of self.tasks.
C5_ViewIsStablePartition ==
    \A gid \in ViewIds :
        LET view == get_ordered_tasks(tasks, gid)
        IN  /\ Len(view) = Cardinality(Members(gid))
            /\ \A p \in Members(gid) : view[Rank(p, gid) + 1] = tasks[p]
            /\ \A i, j \in DOMAIN view : (i < j /\ view[i].done) => view[j].done

\* a toggle has left a completed task ahead of a pending one of the same view
C5_Witness ==
    /\ last.op = "action_toggle_done"
    /\ \E i, j \in DOMAIN tasks :
          /\ i < j
          /\ tasks[i].group_id = tasks[j].group_id
          /\ tasks[i].done
          /\ ~tasks[j].done

\* C6: confirming the deletion of group G removes G from self.groups and exactly
\* the tasks whose group_id is G's id; the other tasks stay, unchanged and in
\* their order, and both counters are unchanged.
C6_DeleteGroupRemovesExactlyItsTasks ==
    [][ (screen.name = "delete_group" /\ last'.op = "delete_group") =>
          LET G == groups[screen.group]
              kept == { p \in DOMAIN tasks : tasks[p].group_id # G.id }
          IN  /\ groups' = RemoveAt(groups, screen.group)
              /\ Len(tasks') = Cardinality(kept)
              /\ \A p \in kept :
                    tasks'[Cardinality({ q \in kept : q <= p })] = tasks[p]
              /\ next_task_id' = next_task_id
              /\ next_group_id' = next_group_id ]_vars

\* a group was deleted with a task of its own, and a task of another view stays
C6_Witness ==
    /\ last.op = "delete_group"
    /\ tasks # <<>>
    /\ ever_task_ids \ TaskIds(tasks) # {}

\* C7: from every store state, save_data followed by load_data into a freshly
\* constructed application gives the same counters, groups and tasks.
C7_SaveLoadRoundTrip ==
    \A now \in Clock :
        load_data(Store(<<>>, <<>>, 1, 1), save_document(Self), now) = Self

\* a save has written a store with a group and a task in it
C7_Witness ==
    /\ last.outcome = "saved"
    /\ data_file = save_document(Self)
    /\ groups # <<>>
    /\ \E i \in DOMAIN tasks : tasks[i].group_id # None

\* the document load_data has just accepted omits both counters and holds a task
\* record that omits done, created_at and group_id
C8_Case ==
    /\ phase = "loaded"
    /\ Accepted(data_file)
    /\ {"next_task_id", "next_group_id"} \subseteq data_file.absent
    /\ \E i \in DOMAIN Get(data_file, "tasks", <<>>) :
          {"done", "created_at", "group_id"} \subseteq data_file.tasks[i].absent

\* C8 (as claimed): a task record that omits done, created_at or group_id loads
\* as done = False, created_at = "" and group_id = None; an omitted counter
\* loads as 1.
C8_AbsentFieldsTakeDefaults ==
    (phase = "loaded" /\ Accepted(data_file)) =>
        /\ "next_task_id" \in data_file.absent => next_task_id = 1
        /\ "next_group_id" \in data_file.absent => next_group_id = 1
        /\ Len(tasks) = Len(Get(data_file, "tasks", <<>>))
        /\ \A i \in DOMAIN tasks :
              LET t == data_file.tasks[i]
              IN  /\ "done" \in t.absent => tasks[i].done = FALSE
                  /\ "created_at" \in t.absent => tasks[i].created_at = ""
                  /\ "group_id" \in t.absent => tasks[i].group_id = None

\* C8 (amended): as claimed for done, group_id and the counters; a task record
\* that omits created_at loads with created_at set to the clock's reading at
\* load time, never the empty string.
C8_AbsentFieldsTakeDefaultsOrStamp ==
    (phase = "loaded" /\ Accepted(data_file)) =>
        /\ "next_task_id" \in data_file.absent => next_task_id = 1
        /\ "next_group_id" \in data_file.absent => next_group_id = 1
        /\ Len(tasks) = Len(Get(data_file, "tasks", <<>>))
        /\ \A i \in DOMAIN tasks :
              LET t == data_file.tasks[i]
              IN  /\ "done" \in t.absent => tasks[i].done = FALSE
                  /\ "created_at" \in t.absent =>
                        (tasks[i].created_at \in Clock /\ tasks[i].created_at # "")
                  /\ "group_id" \in t.absent => tasks[i].group_id = None

C8_Witness == C8_Case /\ tasks # <<>>

C10_SavedBeforeNextOperation ==
    [][ (unsaved /\ phase = "running") => callbacks' # callbacks ]_vars

\* the store the handler named op makes of the store it starts from
Mutated(op) ==
    IF op = "add_task"
    THEN { add_task(Self, result, current_group_id, now) :
             result \in InputResults \ {<<>>}, now \in Clock }
    ELSE IF op = "edit_task"
    THEN { [Self EXCEPT !.tasks = update_text(tasks, screen.task, result)] :
             result \in InputResults \ {<<>>} }
    ELSE IF op = "delete_task"
    THEN { [Self EXCEPT !.tasks = list_remove(tasks, tasks[screen.task])] }
    ELSE IF op = "action_toggle_done"
    THEN { [Self EXCEPT !.tasks =
              toggle_done(tasks, get_selected_task_widget(tasks, current_group_id,
                                                          selected_index))] }
    ELSE IF op = "new_group"
    THEN { new_group(Self, result) : result \in InputResults \ {<<>>} }
    ELSE IF op = "delete_group"
    THEN { delete_group(Self, groups[screen.group]) }
    ELSE { Self }

\* the view the handler named op leaves current
ViewAfter(op) ==
    IF op = "new_group" THEN next_group_id
    ELSE IF op = "delete_group" THEN None
    ELSE current_group_id

Blank(raw) == \A i \in DOMAIN raw : IsSpace(raw[i])

\* what an InputModal hands its callback when blank text is submitted or the
\* dialog is cancelled
BlankResults == { on_save(raw) : raw \in { r \in RawInputs : Blank(r) } } \cup { on_cancel }

\* C12: submitting empty or white-space-only text, or cancelling, in the dialog
\* of add task, edit task, create group or rename group is a no-op: tasks,
\* groups, both counters, the current view and the selection are unchanged, and
\* no save is made or scheduled.
C12_BlankInputIsNoOp ==
    [][ \A result \in BlankResults :
          ( \/ \E now \in Clock : add_task_on_result(result, now)
            \/ edit_task_on_result(result)
            \/ new_group_on_result(result)
            \/ rename_group_on_result(result) )
          => /\ UNCHANGED <<store, current_group_id, selected_index>>
             /\ UNCHANGED <<data_file, callbacks, unsaved>>
             /\ last'.outcome = "none"
             /\ phase' = "running" ]_vars

\* the rename dialog of a group with a task in it was left blank
C12_Witness ==
    /\ last = Did("rename_group", "none")
    /\ tasks # <<>>
    /\ current_group_id # None

\* C13: no sequence of user operations, from any store load_data accepts, ends
\* in an unhandled exception: every handler completes or does nothing, also
\* when it acts on a stale task or group and when the tabs are stepped from any
\* current_group_id.
C13_NoUnhandledFailure == phase # "crashed"

\* text s contains term q when the case of the letters is ignored
ContainsIgnoringCase(s, q) ==
    \E i \in 0..(Len(s) - Len(q)) :
        \A k \in 1..Len(q) : LowerChar(s[i + k]) = LowerChar(q[k])

\* the positions in self.tasks of the tasks whose text contains the term
Found(query) == { p \in DOMAIN tasks : ContainsIgnoringCase(tasks[p].text, query) }

\* the name of the group of the task at position p, or the sentinel
NameFor(p) ==
    IF tasks[p].group_id # None /\ tasks[p].group_id \in GroupIds(groups)
    THEN { groups[i].name : i \in { j \in DOMAIN groups : groups[j].id = tasks[p].group_id } }
    ELSE { SinGrupo }

\* C14: a search for a non-empty term finds exactly the tasks, of every group
\* and of none, whose text contains the term with case ignored, in the order of
\* self.tasks, each paired with the name of its group, or with "Sin grupo" when
\* its group_id is None or names no group; the outcome shown is made of these
\* results, and the search changes no task, group or counter and saves nothing.
C14_SearchFindsExactlyTheMatches ==
    [][ \A raw \in RawQueries :
          (on_save(raw) # <<>> /\ on_search_input(on_save(raw))) =>
             LET found == Found(on_save(raw))
                 results == search_results(tasks, groups, on_save(raw))
             IN  /\ Len(results) = Cardinality(found)
                 /\ \A p \in found :
                       LET r == results[Cardinality({ q \in found : q <= p })]
                       IN  r.task = p /\ r.group_name \in NameFor(p)
                 /\ found = {} => screen'.name = "no_results" /\ callbacks' = callbacks
                 /\ Cardinality(found) = 1 =>
                       /\ screen' = MainScreen
                       /\ \E p \in found : callbacks' = Append(callbacks, go_to_task(tasks[p]))
                 /\ Cardinality(found) > 1 =>
                       /\ screen' = Modal("search_results", 0, 0, results)
                       /\ callbacks' = callbacks
                 /\ UNCHANGED <<store, data_file, unsaved>>
                 /\ last'.outcome \notin {"saved", "write_failed"} ]_vars

\* a search has found two tasks: one of a group, shown with the group's name,
\* and one of no group, shown with the sentinel
C14_Witness ==
    /\ last = Did("search", "many_results")
    /\ \E i, j \in DOMAIN screen.results :
          /\ i < j
          /\ screen.results[i].group_name # SinGrupo
          /\ screen.results[j].group_name = SinGrupo

\* the position in self.tasks of the task shown at selected_index in the view
SelectedTask ==
    LET ordered == get_ordered_tasks(tasks, current_group_id)
    IN  CHOOSE p \in DOMAIN tasks :
            /\ tasks[p].group_id = current_group_id
            /\ tasks[p].id = ordered[selected_index + 1].id

\* C15: toggle-done on the selected task flips that task's done flag and
\* nothing else: its id, text, created_at, group_id and position in self.tasks,
\* every other task, the groups and both counters are unchanged; toggling the
\* same task once more gives back the tasks there were.
C15_ToggleFlipsOnlyDone ==
    [][ last'.op = "action_toggle_done" =>
          /\ DOMAIN tasks' = DOMAIN tasks
          /\ tasks'[SelectedTask] = [tasks[SelectedTask] EXCEPT !.done = ~tasks[SelectedTask].done]
          /\ tasks'[SelectedTask].done # tasks[SelectedTask].done
          /\ \A q \in DOMAIN tasks \ {SelectedTask} : tasks'[q] = tasks[q]
          /\ UNCHANGED <<groups, next_task_id, next_group_id>>
          /\ toggle_done(tasks', SelectedTask) = tasks ]_vars

\* the first of two tasks of the current view has been toggled to done
C15_Witness ==
    /\ last.op = "action_toggle_done"
    /\ Len(tasks) = 2
    /\ tasks[1].group_id = current_group_id
    /\ tasks[2].group_id = current_group_id
    /\ tasks[1].done
    /\ ~tasks[2].done
    /\ selected_index = 0

\* no handler is running and none is queued: the main screen waits for a key
Idle == phase = "running" /\ screen = MainScreen /\ callbacks = <<>>

\* C16: whenever the application is idle, selected_index is 0 if the current
\* view is empty and otherwise lies in 0 .. len(view) - 1; so action_delete_task
\* never indexes the ordered view out of range.
C16_SelectionInRange ==
    /\ Idle =>
          LET view == get_ordered_tasks(tasks, current_group_id)
          IN  IF view = <<>> THEN selected_index = 0
              ELSE 0 <= selected_index /\ selected_index <= Len(view) - 1
    /\ last # Did("action_delete_task", "raised")

\* the second of the two tasks of a view was deleted while it was selected, and
\* the selection is on the task that is left
C16_Witness ==
    /\ Idle
    /\ last.op = "delete_task"
    /\ ever_task_ids = {1, 2}
    /\ Len(tasks) = 1
    /\ tasks[1].id = 1
    /\ tasks[1].group_id = current_group_id
    /\ selected_index = 0

\* the element after gid in [None] + group ids, the first one after the last
Successor(gid) ==
    LET ids == group_ids(groups)
    IN  ids[(IndexOf(ids, gid) % Len(ids)) + 1]

\* the element before gid in [None] + group ids, the last one before the first
Predecessor(gid) ==
    LET ids == group_ids(groups)
    IN  ids[((IndexOf(ids, gid) - 2) % Len(ids)) + 1]

\* gid after n next-group steps
RECURSIVE Successors(_, _)
Successors(gid, n) == IF n = 0 THEN gid ELSE Successors(Successor(gid), n - 1)

\* the step went from the current view to the view `to`
SteppedTo(to) ==
    /\ current_group_id' = to
    /\ selected_index' = 0
    /\ phase' = "running"
    /\ UNCHANGED store

\* C17: group-tab stepping is cyclic over [None] followed by the group ids in
\* creation order: next-group moves the view to its successor and prev-group to
\* its predecessor, both wrapping; next then prev gives the view back, and so do
\* n + 1 next steps with n groups; each step puts selected_index at 0 and
\* changes no task, group or counter.
C17_GroupSteppingIsCyclic ==
    [][ /\ action_next_group => SteppedTo(Successor(current_group_id))
        /\ action_prev_group => SteppedTo(Predecessor(current_group_id))
        /\ (action_next_group \/ action_prev_group) =>
              /\ Predecessor(Successor(current_group_id)) = current_group_id
              /\ Successors(current_group_id, Len(groups) + 1) = current_group_id ]_vars

\* C18: right after an add-task that went through, the new task is the last
\* element of self.tasks, with done = False and the group_id of the current
\* view, and selected_index is the index of exactly that task in the ordered
\* view.
C18_AddedTaskIsLastAndSelected ==
    [][ (last'.op = "add_task" /\ last'.outcome \in {"saved", "write_failed"}) =>
          /\ Len(tasks') = Len(tasks) + 1
          /\ SubSeq(tasks', 1, Len(tasks)) = tasks
          /\ tasks'[Len(tasks')].done = FALSE
          /\ tasks'[Len(tasks')].id = next_task_id
          /\ tasks'[Len(tasks')].group_id = current_group_id
          /\ current_group_id' = current_group_id
          /\ selected_index' + 1 \in DOMAIN ordered_positions(tasks', current_group_id')
          /\ ordered_positions(tasks', current_group_id')[selected_index' + 1] = Len(tasks') ]_vars

\* a task was added to a view that holds a completed task: it is the last of
\* self.tasks and the first of the ordered view
C18_Witness ==
    /\ last = Did("add_task", "saved")
    /\ Len(tasks) = 2
    /\ tasks[1].done
    /\ tasks[1].group_id = current_group_id
    /\ tasks[2].group_id = current_group_id
    /\ tasks[2].id = next_task_id - 1
    /\ selected_index = 0

====
